---- MODULE Spec2Model ----
(***************************************************************************)
(* Model of parser.py: SitemapParser (fetch_sitemap, parse_sitemap,        *)
(* categorize_urls, export_to_excel) and main.                             *)
(*                                                                         *)
(* Strings that the code inspects are sequences of tokens.  A token is     *)
(* either a single delimiter character ("/", "?", "#", ";", "[", the line  *)
(* feed "nl"), the scheme with its colon ("https:"), one of the words the  *)
(* regular expressions name, or "x": any other run of characters.          *)
(***************************************************************************)
EXTENDS Integers, Sequences, FiniteSets, TLC

VARIABLES
    web,          \* the sitemap documents the HTTP server holds, by URL
    pc,           \* position of main
    stack,        \* the active calls of parse_sitemap, innermost last
    urls,         \* SitemapParser.urls, the accumulation list
    categorized,  \* the list categorize_urls returned
    file,         \* the spreadsheet to_excel wrote
    returned,     \* the path export_to_excel returned
    error,        \* the exception main caught
    exitCode,     \* what main returned
    src,          \* history: for each record of urls, the call that appended it
    fetchLog,     \* history: the calls of fetch_sitemap, in order
    maxDepth,     \* history: the deepest nesting of parse_sitemap so far
    paths         \* the path component each drawn URL was built around

vars == <<web, pc, stack, urls, categorized, file, returned, error, exitCode,
          src, fetchLog, maxDepth, paths>>

(***************************************************************************)
(* Bounds of the model.                                                    *)
(***************************************************************************)
MaxPathLen == 7
MaxRelLen == 4
MaxRecs == 2
RecursionLimit == 4

None == <<>>
NoError == "NoError"
NoFile == [path |-> <<>>, header |-> <<>>, rows |-> <<>>]

(***************************************************************************)
(* urllib.parse.urlparse, as far as categorize_urls uses it (line 71-72).  *)
(***************************************************************************)
Strip(url) == SelectSeq(url, LAMBDA t : t # "nl")

HasScheme(u) == Len(u) > 0 /\ u[1] = "https:"

AfterScheme(u) == IF HasScheme(u) THEN Tail(u) ELSE u

HasNetloc(r) == Len(r) >= 2 /\ r[1] = "/" /\ r[2] = "/"

FirstOf(s, from, set) ==
    LET hits == {j \in from..Len(s) : s[j] \in set}
    IN  IF hits = {} THEN Len(s) + 1
        ELSE CHOOSE j \in hits : \A k \in hits : j <= k

LastOf(s, c) ==
    LET hits == {j \in 1..Len(s) : s[j] = c}
    IN  IF hits = {} THEN 0
        ELSE CHOOSE j \in hits : \A k \in hits : j >= k

Netloc(r) == IF HasNetloc(r) THEN SubSeq(r, 3, FirstOf(r, 3, {"/", "?", "#"}) - 1)
             ELSE <<>>

AfterNetloc(r) == IF HasNetloc(r)
                  THEN SubSeq(r, FirstOf(r, 3, {"/", "?", "#"}), Len(r))
                  ELSE r

Occurs(c, s) == \E j \in 1..Len(s) : s[j] = c

CutAt(s, c) == SubSeq(s, 1, FirstOf(s, 1, {c}) - 1)

SplitParams(p) ==
    IF ~Occurs(";", p) THEN p
    ELSE IF Occurs("/", p)
         THEN LET i == FirstOf(p, LastOf(p, "/"), {";"})
              IN  IF i > Len(p) THEN p ELSE SubSeq(p, 1, i - 1)
         ELSE SubSeq(p, 1, FirstOf(p, 1, {";"}) - 1)

UrlparseRaises(url) ==
    LET n == Netloc(AfterScheme(Strip(url)))
    IN  Occurs("[", n) # Occurs("]", n)

UrlparsePath(url) ==
    SplitParams(CutAt(CutAt(AfterNetloc(AfterScheme(Strip(url))), "#"), "?"))

(***************************************************************************)
(* re.search with the three patterns of categorize_urls (lines 78-83).     *)
(***************************************************************************)
AtEnd(p, j) == j = Len(p) + 1 \/ (j = Len(p) /\ p[j] = "nl")

SegmentAt(p, j, k) == j <= k /\ k <= Len(p) /\ \A m \in j..k : p[m] # "/"

MatchTail(p, j) ==
    \E k \in j..Len(p) :
        /\ SegmentAt(p, j, k)
        /\ \/ AtEnd(p, k + 1)
           \/ (k + 1 <= Len(p) /\ p[k + 1] = "/" /\ AtEnd(p, k + 2))

WordAt(p, i, words) ==
    /\ i + 2 <= Len(p)
    /\ p[i] = "/"
    /\ p[i + 1] \in words
    /\ p[i + 2] = "/"

SearchOneSegment(p, words) ==
    \E i \in 1..Len(p) : WordAt(p, i, words) /\ MatchTail(p, i + 3)

SearchTwoSegments(p, words) ==
    \E i \in 1..Len(p) :
        /\ WordAt(p, i, words)
        /\ \E k \in (i + 3)..Len(p) :
              /\ SegmentAt(p, i + 3, k)
              /\ k + 1 <= Len(p)
              /\ p[k + 1] = "/"
              /\ MatchTail(p, k + 2)

CategoryFirstBlog(path) ==
    IF SearchTwoSegments(path, {"blog", "blogs"}) THEN "blog"
    ELSE IF SearchOneSegment(path, {"product", "products"}) THEN "product"
    ELSE IF SearchOneSegment(path, {"collection", "collections"}) THEN "collection"
    ELSE "page"

Category(path) ==
    IF SearchOneSegment(path, {"product", "products"}) THEN "product"
    ELSE IF SearchOneSegment(path, {"collection", "collections"}) THEN "collection"
    ELSE IF SearchTwoSegments(path, {"blog", "blogs"}) THEN "blog"
    ELSE "page"

CategorizeRaises(us) == \E i \in 1..Len(us) : UrlparseRaises(us[i].url)

CategorizeUrls(us) ==
    [i \in 1..Len(us) |->
        [url |-> us[i].url,
         category |-> Category(UrlparsePath(us[i].url)),
         lastmod |-> us[i].lastmod]]

(***************************************************************************)
(* Sitemap documents.  A document is the element tree ET.fromstring gives  *)
(* (wf = FALSE: the text is not well-formed XML); nodes are its            *)
(* descendants in document order, tag "other" standing for any element     *)
(* outside the sitemap namespace.  An element's text is a token sequence,  *)
(* <<>> for Python's None.                                                 *)
(***************************************************************************)
Root == <<"root.xml">>
SubA == <<"a.xml">>
SubB == <<"b.xml">>
Missing == <<"missing.xml">>

SitemapURLs == {Root, SubA, SubB}

UrlProduct == <<"https:", "/", "/", "x", "/", "products", "/", "x">>
UrlPage == <<"https:", "/", "/", "x", "/", "x">>
UrlCollection == <<"https:", "/", "/", "x", "/", "collections", "/", "x", "/">>
UrlBadHost == <<"https:", "/", "/", "[", "x", "/", "products", "/", "x">>
Stamp == <<"2024-01-01">>

Elem(t, kids) == [tag |-> t, children |-> kids]
Leaf(t, txt) == [tag |-> t, text |-> txt]

SitemapTo(u) == Elem("sitemap", <<Leaf("loc", u)>>)
SitemapNoLoc == Elem("sitemap", <<Leaf("lastmod", Stamp)>>)
UrlEntry(u) == Elem("url", <<Leaf("loc", u)>>)
UrlDated(u, d) == Elem("url", <<Leaf("loc", u), Leaf("lastmod", d)>>)
UrlNoLoc == Elem("url", <<Leaf("lastmod", Stamp)>>)
UrlTwoLocs == Elem("url", <<Leaf("loc", <<>>), Leaf("loc", UrlPage)>>)
Foreign == Elem("other", <<Leaf("loc", UrlPage)>>)

Tree(ns) == [wf |-> TRUE, nodes |-> ns]
Malformed == [wf |-> FALSE, nodes |-> <<>>]

Docs ==
    { Tree(<<UrlDated(UrlProduct, Stamp), UrlNoLoc, UrlEntry(UrlPage),
             UrlEntry(<<>>), Foreign, UrlDated(UrlCollection, <<>>), UrlTwoLocs>>),
      Tree(<<UrlEntry(UrlCollection)>>),
      Tree(<<UrlEntry(UrlBadHost)>>),
      Tree(<<Foreign>>),
      Malformed,
      Tree(<<SitemapTo(SubA), SitemapTo(SubB)>>),
      Tree(<<SitemapTo(SubA), SitemapTo(SubA)>>),
      Tree(<<SitemapTo(SubB)>>),
      Tree(<<SitemapTo(Root)>>),
      Tree(<<UrlEntry(UrlPage), SitemapTo(SubB), UrlDated(UrlProduct, Stamp)>>),
      Tree(<<SitemapTo(SubB), SitemapNoLoc, SitemapTo(SubA), UrlEntry(UrlPage)>>),
      Tree(<<SitemapTo(SubB), SitemapTo(<<>>)>>),
      Tree(<<SitemapTo(Missing)>>) }

OutArgs == {<<>>, <<"out.xlsx">>}
Synthesized == <<"sitemap_results_", "timestamp", ".xlsx">>

(***************************************************************************)
(* ElementTree lookups (lines 40, 44, 48, 50, 52).                         *)
(***************************************************************************)
Reversed(sq) == [j \in 1..Len(sq) |-> sq[Len(sq) + 1 - j]]

FindAllReversed(doc, t) == Reversed(SelectSeq(doc.nodes, LAMBDA n : n.tag = t))

FindAll(doc, t) == SelectSeq(doc.nodes, LAMBDA n : n.tag = t)

Find(el, t) ==
    LET hits == {j \in 1..Len(el.children) : el.children[j].tag = t}
    IN  IF hits = {} THEN <<>>
        ELSE <<el.children[CHOOSE j \in hits : \A k \in hits : j <= k]>>

ExtractKeepsEmpty(tags) ==
    [j \in 1..Len(tags) |->
        LET loc == Find(tags[j], "loc")
            lastmod == Find(tags[j], "lastmod")
        IN  [url |-> IF loc # <<>> THEN loc[1].text ELSE <<>>,
             lastmod |-> IF lastmod # <<>> THEN lastmod[1].text ELSE None]]

RECURSIVE Extract(_)
Extract(tags) ==
    IF tags = <<>> THEN <<>>
    ELSE LET loc == Find(Head(tags), "loc")
             lastmod == Find(Head(tags), "lastmod")
         IN  (IF loc # <<>> /\ loc[1].text # <<>>
              THEN <<[url |-> loc[1].text,
                      lastmod |-> IF lastmod # <<>> THEN lastmod[1].text ELSE None]>>
              ELSE <<>>) \o Extract(Tail(tags))

OwnRecords(doc) == Extract(FindAll(doc, "url"))


(***************************************************************************)
(* main and the calls it makes.  An exception that reaches main's handler  *)
(* (lines 125-127) ends the run with exit code 1.                          *)
(***************************************************************************)
Top == stack[Len(stack)]

Frame(name, content) == [name |-> name, content |-> content, phase |-> "enter", i |-> 1]

Fetched(u, parent, idx, ok) ==
    [url |-> u, parent |-> parent, idx |-> idx, nrec |-> Len(urls),
     depth |-> Len(stack), ok |-> ok]

Raise(e) ==
    /\ error' = e
    /\ exitCode' = 1
    /\ pc' = "done"
    /\ stack' = <<>>

Call(name) ==
    IF Len(stack) >= RecursionLimit
    THEN /\ Raise("RecursionError")
         /\ UNCHANGED maxDepth
    ELSE /\ stack' = Append(stack, Frame(name, web[name]))
         /\ maxDepth' = IF Len(stack) + 1 > maxDepth THEN Len(stack) + 1 ELSE maxDepth
         /\ UNCHANGED <<pc, error, exitCode>>

SkipEntry ==
    /\ stack' = [stack EXCEPT ![Len(stack)].i = @ + 1]
    /\ UNCHANGED <<pc, error, exitCode, fetchLog, maxDepth>>

FetchOnce(u, parent, idx) ==
    IF \E k \in 1..Len(fetchLog) : fetchLog[k].url = u
    THEN SkipEntry
    ELSE \/ /\ u \in DOMAIN web
            /\ fetchLog' = Append(fetchLog, Fetched(u, parent, idx, TRUE))
            /\ Call(u)
         \/ /\ fetchLog' = Append(fetchLog, Fetched(u, parent, idx, FALSE))
            /\ Raise("RequestException")
            /\ UNCHANGED maxDepth

FetchUnlessActive(u, parent, idx) ==
    IF \E k \in 1..Len(stack) : stack[k].name = u
    THEN SkipEntry
    ELSE \/ /\ u \in DOMAIN web
            /\ fetchLog' = Append(fetchLog, Fetched(u, parent, idx, TRUE))
            /\ Call(u)
         \/ /\ fetchLog' = Append(fetchLog, Fetched(u, parent, idx, FALSE))
            /\ Raise("RequestException")
            /\ UNCHANGED maxDepth

\* fetch_sitemap(u) followed by parse_sitemap(response): lines 45-46.
FetchAndParse(u, parent, idx) ==
    \/ /\ u \in DOMAIN web
       /\ fetchLog' = Append(fetchLog, Fetched(u, parent, idx, TRUE))
       /\ Call(u)
    \/ /\ fetchLog' = Append(fetchLog, Fetched(u, parent, idx, FALSE))
       /\ Raise("RequestException")
       /\ UNCHANGED maxDepth

MainFetch ==
    /\ pc = "start"
    /\ \/ /\ Root \in DOMAIN web
          /\ fetchLog' = Append(fetchLog, Fetched(Root, <<"argv">>, 1, TRUE))
          /\ stack' = <<Frame(Root, web[Root])>>
          /\ maxDepth' = 1
          /\ pc' = "parse"
          /\ UNCHANGED <<error, exitCode>>
       \/ /\ fetchLog' = Append(fetchLog, Fetched(Root, <<"argv">>, 1, FALSE))
          /\ Raise("RequestException")
          /\ UNCHANGED maxDepth
    /\ UNCHANGED <<web, urls, categorized, file, returned, src, paths>>

\* ET.fromstring and findall, lines 38-41
ParseXml ==
    /\ pc = "parse"
    /\ stack # <<>>
    /\ Top.phase = "enter"
    /\ IF Top.content.wf
       THEN /\ stack' = [stack EXCEPT ![Len(stack)].phase = "sitemaps"]
            /\ UNCHANGED <<pc, error, exitCode>>
       ELSE Raise("ParseError")
    /\ UNCHANGED <<web, urls, categorized, file, returned, src, fetchLog, maxDepth, paths>>

\* sitemap.find('./sm:loc', ...) gave None: None.text, line 44
MissingLoc ==
    /\ Raise("AttributeError")
    /\ UNCHANGED <<fetchLog, maxDepth>>

\* one iteration of the loop of lines 43-46
ExpandSitemap ==
    /\ pc = "parse"
    /\ stack # <<>>
    /\ Top.phase = "sitemaps"
    /\ Top.i <= Len(FindAll(Top.content, "sitemap"))
    /\ LET loc == Find(FindAll(Top.content, "sitemap")[Top.i], "loc")
       IN  IF loc = <<>>
           THEN MissingLoc
           ELSE FetchAndParse(loc[1].text, Top.name, Top.i)
    /\ UNCHANGED <<web, urls, categorized, file, returned, src, paths>>

\* self.urls.append, line 55
Prepended(list, more) == more \o list

Accumulate(list, more) == list \o more

\* the return of parse_sitemap to the loop that called it
Returned(st) ==
    IF Len(st) = 1 THEN <<>>
    ELSE [SubSeq(st, 1, Len(st) - 1) EXCEPT ![Len(st) - 1].i = @ + 1]

\* lines 48-60
ExtractUrls ==
    /\ pc = "parse"
    /\ stack # <<>>
    /\ Top.phase = "sitemaps"
    /\ Top.i > Len(FindAll(Top.content, "sitemap"))
    /\ LET own == OwnRecords(Top.content)
       IN  /\ urls' = Accumulate(urls, own)
           /\ src' = Accumulate(src, [j \in 1..Len(own) |->
                                         [name |-> Top.name, depth |-> Len(stack)]])
    /\ stack' = Returned(stack)
    /\ pc' = IF Len(stack) = 1 THEN "categorize" ELSE "parse"
    /\ UNCHANGED <<web, categorized, file, returned, error, exitCode, fetchLog, maxDepth, paths>>

\* line 122
Categorize ==
    /\ pc = "categorize"
    /\ IF CategorizeRaises(urls)
       THEN /\ Raise("ValueError")
            /\ UNCHANGED categorized
       ELSE /\ categorized' = CategorizeUrls(urls)
            /\ pc' = "export"
            /\ UNCHANGED <<stack, error, exitCode>>
    /\ UNCHANGED <<web, urls, file, returned, src, fetchLog, maxDepth, paths>>

\* pd.DataFrame(categorized_urls) and df.to_excel(output_file, index=False)
Columns(rows) == IF rows = <<>> THEN <<>> ELSE <<"url", "category", "lastmod">>

Sheet(path, rows) == [path |-> path, header |-> Columns(rows), rows |-> rows]

\* lines 123-129
Export ==
    /\ pc = "export"
    /\ \E out \in OutArgs, writable \in BOOLEAN :
          LET output_file == IF out = <<>> THEN Synthesized ELSE out
          IN  IF ~writable
              THEN /\ Raise("OSError")
                   /\ UNCHANGED <<file, returned>>
              ELSE /\ file' = Sheet(output_file, categorized)
                   /\ IF ~Occurs("category", Columns(categorized))
                      THEN /\ Raise("KeyError")
                           /\ UNCHANGED returned
                      ELSE /\ returned' = output_file
                           /\ pc' = "done"
                           /\ exitCode' = 0
                           /\ UNCHANGED <<stack, error>>
    /\ UNCHANGED <<web, urls, categorized, src, fetchLog, maxDepth, paths>>

Init ==
    /\ web \in [SitemapURLs -> Docs]
    /\ pc = "start"
    /\ stack = <<>>
    /\ urls = <<>>
    /\ categorized = <<>>
    /\ file = NoFile
    /\ returned = <<>>
    /\ error = NoError
    /\ exitCode = -1
    /\ src = <<>>
    /\ fetchLog = <<>>
    /\ maxDepth = 0
    /\ paths = <<>>

Next ==
    \/ MainFetch
    \/ ParseXml
    \/ ExpandSitemap
    \/ ExtractUrls
    \/ Categorize
    \/ Export

Spec == Init /\ [][Next]_vars

\* the steps of main up to the return of the outermost parse_sitemap
TraversalStep == MainFetch \/ ParseXml \/ ExpandSitemap \/ ExtractUrls


(***************************************************************************)
(* categorize_urls on its own: the accumulation list is drawn from URL     *)
(* strings assembled as prefix (scheme, authority), path and suffix        *)
(* (parameters of the last segment, query, fragment), so that the path     *)
(* component of each URL is known independently of the parsing.            *)
(***************************************************************************)
SeqsUpTo(S, n) == UNION {[1..k -> S] : k \in 0..n}

CoreTok == {"/", "products", "collections", "blogs", "x"}
WordTok == {"/", "product", "products", "collection", "collections", "blog", "blogs",
            "x", "nl"}

Part(pre, path, suf) == [pre |-> pre, path |-> path, suf |-> suf]

UrlOf(part) == part.pre \o part.path \o part.suf
PathOf(part) == Strip(part.path)

Authority == <<"https:", "/", "/", "x">>

Prefixes == {<<>>, <<"https:">>, <<"/", "/", "x">>, Authority, <<"nl">> \o Authority,
             <<"https:", "/", "/", "products">>, <<"https:", "/", "/", "[", "x">>}

Suffixes == {<<>>, <<"nl">>, <<";", "x">>, <<";", "x", "?", "x">>,
             <<"?", "/", "products", "/", "x">>,
             <<"#", "/", "collections", "/", "x">>,
             <<"?", "x", "#", "/", "blogs", "/", "x", "/", "x">>}

SamplePaths ==
    { <<>>, <<"/">>,
      <<"/", "products", "/", "x">>,
      <<"/", "x", "/", "products", "/", "x">>,
      <<"/", "products", "/", "x", "/">>,
      <<"/", "products", "/", "x", "/", "nl">>,
      <<"/", "products", "/", "x", "/", "x">>,
      <<"/", "products">>,
      <<"/", "products", "/">>,
      <<"/", "products", ";", "x", "/", "x">>,
      <<"/", "collection", "/", "x">>,
      <<"/", "blogs", "/", "x", "/", "x", "/">>,
      <<"/", "blog", "/", "products", "/", "x">>,
      <<"/", "blog", "/", "x", "/", "collections", "/">>,
      <<"/", "x", "/">>,
      <<"x", "/", "products", "/", "x">>,
      <<"products", "/", "x">> }

HasAuthority(pre) == HasNetloc(AfterScheme(Strip(pre)))

\* With an authority the path is empty or starts with "/"; without one it
\* does not start with "//" (RFC 3986, section 3.3).
Shaped(part) ==
    LET q == PathOf(part)
    IN  IF HasAuthority(part.pre) THEN q = <<>> \/ q[1] = "/"
        ELSE ~HasNetloc(q)

AbsoluteParts ==
    {Part(Authority, <<"/">> \o r, <<>>) : r \in SeqsUpTo(CoreTok, MaxPathLen - 1)}

RelativeParts ==
    {part \in {Part(<<>>, r, <<>>) : r \in SeqsUpTo(WordTok, MaxRelLen)} : Shaped(part)}

SampleParts ==
    {part \in {Part(f[1], f[2], f[3]) : f \in Prefixes \X SamplePaths \X Suffixes} :
        Shaped(part)}

ListParts ==
    { Part(Authority, <<"/", "products", "/", "x">>, <<>>),
      Part(Authority, <<"/", "blogs", "/", "x", "/", "x">>, <<"?", "x">>),
      Part(Authority, <<"/", "x">>, <<>>),
      Part(<<"https:", "/", "/", "[", "x">>, <<"/", "collections", "/", "x">>, <<>>) }

Lastmods == {None, Stamp}

CatInputs ==
    {<<[part |-> q, lastmod |-> None]>> : q \in AbsoluteParts \cup RelativeParts \cup SampleParts}
    \cup SeqsUpTo([part : ListParts, lastmod : Lastmods], MaxRecs)

InitCat ==
    /\ web = [u \in SitemapURLs |-> Tree(<<>>)]
    /\ pc = "categorize"
    /\ stack = <<>>
    /\ \E inp \in CatInputs :
          /\ urls = [j \in 1..Len(inp) |-> [url |-> UrlOf(inp[j].part),
                                            lastmod |-> inp[j].lastmod]]
          /\ paths = [j \in 1..Len(inp) |-> PathOf(inp[j].part)]
    /\ categorized = <<>>
    /\ file = NoFile
    /\ returned = <<>>
    /\ error = NoError
    /\ exitCode = -1
    /\ src = <<>>
    /\ fetchLog = <<>>
    /\ maxDepth = 0

NextCat == Categorize

SpecCat == InitCat /\ [][NextCat]_vars

(***************************************************************************)
(* The rule list of the specification, on the segments of a path.          *)
(***************************************************************************)
RECURSIVE Segments(_)
Segments(p) ==
    LET d == FirstOf(p, 1, {"/"})
    IN  IF d > Len(p) THEN <<p>>
        ELSE <<SubSeq(p, 1, d - 1)>> \o Segments(SubSeq(p, d + 1, Len(p)))

\* the segments with the one empty segment an optional trailing slash leaves removed
Trimmed(p) ==
    LET sg == Segments(p)
    IN  IF Len(sg) >= 2 /\ sg[Len(sg)] = <<>> THEN SubSeq(sg, 1, Len(sg) - 1) ELSE sg

EndsWithOne(p, words) ==
    LET sg == Trimmed(p)
        n == Len(sg)
    IN  n >= 3 /\ sg[n] # <<>> /\ sg[n - 1] \in {<<w>> : w \in words}

EndsWithTwo(p, words) ==
    LET sg == Trimmed(p)
        n == Len(sg)
    IN  n >= 4 /\ sg[n] # <<>> /\ sg[n - 1] # <<>> /\ sg[n - 2] \in {<<w>> : w \in words}

RuleCategory(p) ==
    IF EndsWithOne(p, {"product", "products"}) THEN "product"
    ELSE IF EndsWithOne(p, {"collection", "collections"}) THEN "collection"
    ELSE IF EndsWithTwo(p, {"blog", "blogs"}) THEN "blog"
    ELSE "page"

CategorizeReturned == pc = "export" /\ error = NoError

\* C1: whenever categorize_urls returns, every record's category is the one the
\* rule list (product, then collection, then blog, else page) gives for the path
\* component of that record's URL, whatever surrounds the path in the URL.
C1_FirstMatchOnPath ==
    CategorizeReturned =>
        /\ Len(categorized) = Len(paths)
        /\ \A j \in 1..Len(paths) : categorized[j].category = RuleCategory(paths[j])

C1_Witness ==
    /\ CategorizeReturned
    /\ Len(paths) = 1
    /\ EndsWithOne(paths[1], {"product", "products"})
    /\ EndsWithTwo(paths[1], {"blog", "blogs"})
    /\ categorized[1].category = "product"
    /\ urls[1].url # paths[1]

\* C2: categorize_urls never fails and returns one record per input record, in
\* order, with the same url and lastmod and one of the four categories, the same
\* URL always getting the same category, and leaves the accumulation list alone.
C2_Shape ==
    /\ Len(categorized) = Len(urls)
    /\ \A j \in 1..Len(urls) :
          /\ categorized[j].url = urls[j].url
          /\ categorized[j].lastmod = urls[j].lastmod
          /\ categorized[j].category \in {"page", "product", "collection", "blog"}
    /\ \A j, k \in 1..Len(urls) :
          urls[j].url = urls[k].url => categorized[j].category = categorized[k].category

C2_TotalOrderPreserving ==
    pc # "categorize" => (error = NoError /\ pc = "export" /\ C2_Shape)

C2_ShapeWhenReturned == CategorizeReturned => C2_Shape

C2_ListUnchanged == [][Categorize => urls' = urls]_vars


(***************************************************************************)
(* What a traversal is expected to do, stated on the documents themselves. *)
(***************************************************************************)
Positions(doc, t) == {j \in 1..Len(doc.nodes) : doc.nodes[j].tag = t}

Nth(S, k) == CHOOSE j \in S : Cardinality({q \in S : q <= j}) = k

Listed(doc, t) ==
    [k \in 1..Cardinality(Positions(doc, t)) |-> doc.nodes[Nth(Positions(doc, t), k)]]

HasLoc(el) == \E j \in 1..Len(el.children) : el.children[j].tag = "loc"

LocText(el) == IF HasLoc(el) THEN Find(el, "loc")[1].text ELSE <<"no loc">>

Qualifies(el) == HasLoc(el) /\ LocText(el) # <<>>

RecordOf(el) ==
    [url |-> LocText(el),
     lastmod |-> IF \E j \in 1..Len(el.children) : el.children[j].tag = "lastmod"
                 THEN Find(el, "lastmod")[1].text ELSE None]

OwnExpected(doc) ==
    LET S == {j \in Positions(doc, "url") : Qualifies(doc.nodes[j])}
    IN  [k \in 1..Cardinality(S) |-> RecordOf(doc.nodes[Nth(S, k)])]

RefsOf(name) ==
    LET L == Listed(web[name], "sitemap")
    IN  [k \in 1..Len(L) |-> LocText(L[k])]

LocLess(name, j) == ~HasLoc(Listed(web[name], "sitemap")[j])

HasLocLess(name) == \E j \in 1..Len(RefsOf(name)) : LocLess(name, j)

Clean(name) ==
    /\ web[name].wf
    /\ \A j \in 1..Len(RefsOf(name)) : ~LocLess(name, j) /\ RefsOf(name)[j] \in SitemapURLs

Succ(name) ==
    IF web[name].wf
    THEN {RefsOf(name)[j] : j \in 1..Len(RefsOf(name))} \cap SitemapURLs
    ELSE {}

RECURSIVE Grow(_, _)
Grow(S, n) == IF n = 0 THEN S ELSE Grow(S \cup UNION {Succ(m) : m \in S}, n - 1)

Fuel == Cardinality(SitemapURLs)

Desc(name) == Grow(Succ(name), Fuel)

Reached == {Root} \cup Desc(Root)

Cyclic == \E m \in Reached : m \in Desc(m)

CleanTree == ~Cyclic /\ \A m \in Reached : Clean(m)

CleanCycle == Cyclic /\ \A m \in Reached : Clean(m)

UrlSet(doc) == doc.wf /\ Positions(doc, "sitemap") = {}

ParseCompleted ==
    \/ pc \in {"categorize", "export"}
    \/ pc = "done" /\ error \in {NoError, "ValueError", "OSError", "KeyError"}

IsPrefix(a, b) == Len(a) <= Len(b) /\ a = SubSeq(b, 1, Len(a))

Occurrences(x, sq) == Cardinality({k \in 1..Len(sq) : sq[k] = x})

RECURSIVE Total(_)
Total(ns) == IF ns = <<>> THEN 0 ELSE Head(ns) + Total(Tail(ns))

NameList == <<Root, SubA, SubB>>

\* the records a depth-first, in-order traversal from a document accumulates
RECURSIVE DfsRecords(_, _), DfsRefsRecords(_, _)
DfsRecords(name, fuel) ==
    IF fuel = 0 THEN <<>>
    ELSE DfsRefsRecords(RefsOf(name), fuel - 1) \o OwnExpected(web[name])

DfsRefsRecords(refs, fuel) ==
    IF refs = <<>> THEN <<>>
    ELSE DfsRecords(Head(refs), fuel) \o DfsRefsRecords(Tail(refs), fuel)

\* the fetches it issues, each with the number of records accumulated before it
RECURSIVE DfsFetches(_, _, _, _)
DfsFetches(name, k, base, fuel) ==
    IF fuel = 0 \/ k > Len(RefsOf(name)) THEN <<>>
    ELSE LET ref == RefsOf(name)[k]
         IN  <<[url |-> ref, parent |-> name, idx |-> k, nrec |-> base]>>
             \o DfsFetches(ref, 1, base, fuel - 1)
             \o DfsFetches(name, k + 1, base + Len(DfsRecords(ref, fuel - 1)), fuel)

ExpectedFetches ==
    <<[url |-> Root, parent |-> <<"argv">>, idx |-> 1, nrec |-> 0]>>
    \o DfsFetches(Root, 1, 0, Fuel)

Issued ==
    [k \in 1..Len(fetchLog) |->
        [url |-> fetchLog[k].url, parent |-> fetchLog[k].parent,
         idx |-> fetchLog[k].idx, nrec |-> fetchLog[k].nrec]]

\* how many times a traversal from the root reaches a document
RECURSIVE Visits(_, _)
Visits(u, fuel) ==
    (IF u = Root THEN 1 ELSE 0)
    + (IF fuel = 0 THEN 0
       ELSE Total([k \in 1..Len(NameList) |->
                      Occurrences(u, RefsOf(NameList[k])) * Visits(NameList[k], fuel - 1)]))

RECURSIVE NestingDepth(_, _)
NestingDepth(name, fuel) ==
    IF fuel = 0 THEN 0
    ELSE LET below == {NestingDepth(m, fuel - 1) : m \in Succ(name)}
         IN  1 + (IF below = {} THEN 0 ELSE CHOOSE d \in below : \A e \in below : d >= e)

\* C3: for a well-formed <urlset> at the root, parsing raises nothing and appends
\* one record per <url> entry whose <loc> child (the first, should there be
\* several) is present with non-empty text, carrying the loc text and the
\* lastmod text (None when absent); the other <url> entries are skipped.
C3_UrlsetCount ==
    UrlSet(web[Root]) =>
        /\ error \notin {"ParseError", "AttributeError", "RecursionError"}
        /\ pc \in {"start", "parse"} => urls = <<>>
        /\ ParseCompleted =>
              /\ Len(urls) = Cardinality({j \in Positions(web[Root], "url") :
                                              Qualifies(web[Root].nodes[j])})
              /\ urls = OwnExpected(web[Root])

C3_Witness ==
    /\ UrlSet(web[Root])
    /\ pc = "categorize"
    /\ Len(urls) = 3
    /\ \E j \in Positions(web[Root], "url") : ~HasLoc(web[Root].nodes[j])
    /\ \E j \in Positions(web[Root], "url") :
          HasLoc(web[Root].nodes[j]) /\ LocText(web[Root].nodes[j]) = <<>>
    /\ \E k \in 1..Len(urls) : urls[k].lastmod = None
    /\ \E k \in 1..Len(urls) : urls[k].lastmod = Stamp

\* C4: when every fetch of a traversal of an acyclic index tree succeeded, each
\* <sitemap> reference was fetched once for every time the traversal reached the
\* document listing it, so a document is fetched as often as it is referenced
\* along the tree, and each of its records occurs that many times in the list.
C4_OncePerReference ==
    (CleanTree /\ ParseCompleted) =>
        /\ \A k \in 1..Len(fetchLog) : fetchLog[k].ok
        /\ \A u \in SitemapURLs :
              Cardinality({k \in 1..Len(fetchLog) : fetchLog[k].url = u}) = Visits(u, Fuel)
        /\ \A m \in SitemapURLs : \A j \in 1..Len(RefsOf(m)) :
              Cardinality({k \in 1..Len(fetchLog) :
                              fetchLog[k].parent = m /\ fetchLog[k].idx = j}) = Visits(m, Fuel)
        /\ \A m \in SitemapURLs : \A j \in 1..Len(OwnExpected(web[m])) :
              LET r == OwnExpected(web[m])[j]
              IN  Occurrences(r, urls) =
                     Total([k \in 1..Len(NameList) |->
                               Visits(NameList[k], Fuel)
                               * Occurrences(r, OwnExpected(web[NameList[k]]))])

C4_Witness ==
    /\ CleanTree
    /\ ParseCompleted
    /\ \E u \in SitemapURLs :
          /\ Visits(u, Fuel) = 2
          /\ Cardinality({k \in 1..Len(fetchLog) : fetchLog[k].url = u}) = 2
          /\ \E r \in {urls[k] : k \in 1..Len(urls)} :
                Occurrences(r, OwnExpected(web[u])) = 1 /\ Occurrences(r, urls) = 2

\* C5: on an acyclic index tree the fetches are issued in depth-first document
\* order, each only when every record of the entries listed before it (with all
\* they nest) has been accumulated, and the list holds the records in that order;
\* a failed fetch is the last one.
C5_DepthFirstInOrder ==
    CleanTree =>
        /\ IsPrefix(Issued, ExpectedFetches)
        /\ IsPrefix(urls, DfsRecords(Root, Fuel))
        /\ \A k \in 1..Len(fetchLog) : ~fetchLog[k].ok => k = Len(fetchLog)
        /\ ParseCompleted => Issued = ExpectedFetches /\ urls = DfsRecords(Root, Fuel)

C5_Witness ==
    /\ CleanTree
    /\ ParseCompleted
    /\ RefsOf(Root) = <<SubA, SubB>>
    /\ RefsOf(SubA) = <<SubB>>
    /\ Len(OwnExpected(web[SubB])) = 3
    /\ Len(fetchLog) = 4
    /\ fetchLog[4].nrec = 3
    /\ Len(urls) = 6


TraversalErrors == {"RequestException", "ParseError", "AttributeError", "RecursionError"}

ExportCalled == pc = "done" /\ error \in {NoError, "OSError", "KeyError"}

\* C6: a fetch failure or malformed document aborts the run (nothing fetched
\* after it, nothing categorized or exported, exit code 1); whenever main returns
\* 1 no output file has been produced, and it returns 0 only after the export.
C6_NoPartialOutput ==
    /\ error \in TraversalErrors =>
          /\ pc = "done" /\ exitCode = 1
          /\ categorized = <<>> /\ file = NoFile /\ returned = <<>>
    /\ \A k \in 1..Len(fetchLog) : ~fetchLog[k].ok => k = Len(fetchLog)
    /\ exitCode = 1 => file = NoFile
    /\ exitCode = 0 => (pc = "done" /\ file # NoFile /\ returned = file.path)

\* the part of C6 that the code keeps: errors of the traversal and of
\* categorize leave no file behind, and exit code 0 comes only after the export
C6_AbortBeforeExport ==
    /\ error \in TraversalErrors \cup {"ValueError"} =>
          /\ pc = "done" /\ exitCode = 1
          /\ file = NoFile /\ returned = <<>>
    /\ error \in TraversalErrors => categorized = <<>>
    /\ \A k \in 1..Len(fetchLog) : ~fetchLog[k].ok => k = Len(fetchLog)
    /\ exitCode = 0 => (pc = "done" /\ file # NoFile /\ returned = file.path)
    /\ (exitCode = 1 /\ file # NoFile) => (error = "KeyError" /\ categorized = <<>>)

\* C7: for every list of N >= 0 categorized records and a writable destination,
\* export_to_excel succeeds, returns the path it wrote (the given one, or the
\* synthesized one), and the file holds the header url, category, lastmod and
\* the N records as rows, in order.
C7_ExportRoundTrip ==
    (ExportCalled /\ error # "OSError") =>
        /\ error = NoError /\ exitCode = 0
        /\ returned = file.path
        /\ file.path \in (OutArgs \ {<<>>}) \cup {Synthesized}
        /\ file.header = <<"url", "category", "lastmod">>
        /\ file.rows = categorized

\* the same for N >= 1
C7_ExportNonEmpty ==
    (ExportCalled /\ error # "OSError" /\ categorized # <<>>) =>
        /\ error = NoError /\ exitCode = 0
        /\ returned = file.path
        /\ file.path \in (OutArgs \ {<<>>}) \cup {Synthesized}
        /\ file.header = <<"url", "category", "lastmod">>
        /\ file.rows = categorized

\* the steps a run has taken: fetches issued, documents parsed, calls of
\* parse_sitemap that have returned or been unwound, and main's position
Progress ==
    LET ok == Cardinality({k \in 1..Len(fetchLog) : fetchLog[k].ok})
    IN  Len(fetchLog)
        + (ok - (IF stack # <<>> /\ Top.phase = "enter" THEN 1 ELSE 0))
        + (ok - Len(stack))
        + (CASE pc = "categorize" -> 1 [] pc = "export" -> 2 [] pc = "done" -> 3
             [] OTHER -> 0)

C8_Safety ==
    /\ (CleanTree /\ Fuel < RecursionLimit) =>
          /\ error # "RecursionError"
          /\ Progress <= 3 * Len(ExpectedFetches) + 3
          /\ ParseCompleted => maxDepth = NestingDepth(Root, Fuel)
    /\ Cyclic =>
          /\ pc \notin {"categorize", "export"}
          /\ exitCode # 0
          /\ categorized = <<>> /\ file = NoFile
    /\ (CleanCycle /\ pc = "done" /\ error # "RequestException") =>
          /\ error = "RecursionError"
          /\ exitCode = 1
          /\ maxDepth = RecursionLimit
          /\ Len(fetchLog) > RecursionLimit
    /\ pc \in {"start", "parse"} => ENABLED TraversalStep

\* C8: on an acyclic index tree (nested less deep than the recursion limit) the
\* traversal is never stuck and every step adds to a count bounded by the size
\* of the tree, so parse_sitemap ends, and it nests exactly as deep as the tree; when
\* an index reaches itself the run never gets to categorize or export: with every
\* fetch succeeding it refetches the cycle until the recursion limit, exit code 1.
C8_TerminationAndCycles ==
    /\ []C8_Safety
    /\ [][Progress' > Progress]_vars

C8_Witness ==
    /\ CleanCycle
    /\ web[Root] = Tree(<<SitemapTo(SubA), SitemapTo(SubB)>>)
    /\ Root \in Succ(SubB)
    /\ error = "RecursionError"
    /\ Len(urls) > 0
    /\ Len(fetchLog) > RecursionLimit + 1
    /\ maxDepth = RecursionLimit

\* C9: a <sitemap> entry without <loc> is not skipped: the AttributeError ends
\* the run with exit code 1 and no file; no sibling listed after such an entry
\* is ever fetched, and no <url> entry of a document holding one is extracted.
C9_MissingSitemapLoc ==
    /\ error = "AttributeError" =>
          /\ pc = "done" /\ exitCode = 1
          /\ categorized = <<>> /\ file = NoFile
    /\ \A k \in 1..Len(fetchLog) :
          fetchLog[k].parent \in SitemapURLs =>
              \A j \in 1..fetchLog[k].idx : ~LocLess(fetchLog[k].parent, j)
    /\ \A k \in 1..Len(src) : ~HasLocLess(src[k].name)
    /\ (web[Root].wf /\ HasLocLess(Root)) => (~ParseCompleted /\ exitCode # 0)

C9_Witness ==
    /\ error = "AttributeError"
    /\ HasLocLess(Root)
    /\ Len(OwnExpected(web[Root])) > 0
    /\ Len(fetchLog) = 2
    /\ fetchLog[2].ok
    /\ Len(urls) > 0
    /\ \E j \in 1..Len(RefsOf(Root)) : LocLess(Root, j) /\ j < Len(RefsOf(Root))

\* C10: a document holding both kinds of entries first expands its <sitemap>
\* entries and only then extracts its <url> entries, however they are
\* interleaved: it issues no fetch once a record of its own is in the list, its
\* own records follow every record of the sub-sitemaps, and after the expansion
\* all of them are appended, in document order.
C10_SitemapsBeforeUrls ==
    /\ \A k, l \in 1..Len(src) : (k < l /\ src[k].depth = 1) => src[l].depth = 1
    /\ \A k \in 1..Len(fetchLog) : \A l \in 1..Len(src) :
          (fetchLog[k].depth = 1 /\ src[l].depth = 1) => l > fetchLog[k].nrec
    /\ ParseCompleted =>
          LET own == OwnExpected(web[Root])
              n == Len(urls) - Len(own)
          IN  /\ n >= 0
              /\ SubSeq(urls, n + 1, Len(urls)) = own
              /\ \A l \in 1..Len(src) : src[l].depth = 1 <=> l > n
              /\ Len(src) = Len(urls)

C10_Witness ==
    /\ ParseCompleted
    /\ web[Root].wf
    /\ \E i, j, k \in 1..Len(web[Root].nodes) :
          /\ i < j /\ j < k
          /\ web[Root].nodes[i].tag = "url" /\ Qualifies(web[Root].nodes[i])
          /\ web[Root].nodes[j].tag = "sitemap"
          /\ web[Root].nodes[k].tag = "url" /\ Qualifies(web[Root].nodes[k])
    /\ Len(urls) > Len(OwnExpected(web[Root]))
    /\ src[1].depth = 2

====
